---- MODULE Spec2Model ----
(***************************************************************************)
(* State-machine model of the four scripts of the repository:              *)
(*   preprocess/filtering_github2025.py   (language classifier, collector) *)
(*   preprocess/sft_data_generate.py      (prompt-pair generator)          *)
(*   preprocess/make_autosar_cpt_data.py  (local harvester)                *)
(*   unsloth/train/cpt_train.py           (training driver)                *)
(* The scripts share no run-time state, so each has its own variables and  *)
(* its own specification; the variables of the other scripts stay idle.    *)
(* Python strings are sequences of one-character strings.                  *)
(***************************************************************************)
EXTENDS Integers, Sequences, FiniteSets, TLC

VARIABLES
    \* get_language_from_filepath called on its own
    arg_file_path, ret_language,
    \* filtering_github2025.main
    languages, sample_size, output_path, source, streaming_data,
    target_extensions, collected_data, total_checked, language_counts,
    output_file, col_error, col_pc,
    \* SFTDataGenerator.generate_sft_data
    code_entries, strategies_per_code, skip_errors, max_code_length,
    sft_dataset, entry_index, strategy_index, llm_calls, gen_result, gen_pc,
    \* make_autosar_cpt_data.main
    input_tree, total_code_path_lst, path_index, harvest_dataset,
    check_token_size_list, harvest_file, harvest_pc,
    \* cpt_train.main
    data_sources, source_index, datasets_to_combine, dataset,
    combined_dataset, trainer, saved_model, train_error, train_pc

clsVars == <<arg_file_path, ret_language>>
colVars == <<languages, sample_size, output_path, source, streaming_data,
             target_extensions, collected_data, total_checked,
             language_counts, output_file, col_error, col_pc>>
genVars == <<code_entries, strategies_per_code, skip_errors, max_code_length,
             sft_dataset, entry_index, strategy_index, llm_calls, gen_result,
             gen_pc>>
harVars == <<input_tree, total_code_path_lst, path_index, harvest_dataset,
             check_token_size_list, harvest_file, harvest_pc>>
trnVars == <<data_sources, source_index, datasets_to_combine, dataset,
             combined_dataset, trainer, saved_model, train_error, train_pc>>
vars == <<clsVars, colVars, genVars, harVars, trnVars>>

\* ------------------------------------------------------------------ bounds
MaxStem == 2          \* characters put in front of an extension
MaxStream == 3        \* records the streaming source yields
MaxSampleSize == 3    \* largest --sample_size

\* ------------------------------------------------------- string helpers
Min(a, b) == IF a < b THEN a ELSE b

Take(s, n) == SubSeq(s, 1, Min(n, Len(s)))

SeqsUpTo(S, n) == UNION {[1..k -> S] : k \in 0..n}

Range(s) == {s[i] : i \in 1..Len(s)}

UpperAlphabet == <<"A","B","C","D","E","F","G","H","I","J","K","L","M",
                   "N","O","P","Q","R","S","T","U","V","W","X","Y","Z">>
LowerAlphabet == <<"a","b","c","d","e","f","g","h","i","j","k","l","m",
                   "n","o","p","q","r","s","t","u","v","w","x","y","z">>

\* str.lower / str.upper on one character
LowerChar(c) ==
    IF \E i \in 1..26 : UpperAlphabet[i] = c
    THEN LowerAlphabet[CHOOSE i \in 1..26 : UpperAlphabet[i] = c]
    ELSE c

UpperChar(c) ==
    IF \E i \in 1..26 : LowerAlphabet[i] = c
    THEN UpperAlphabet[CHOOSE i \in 1..26 : LowerAlphabet[i] = c]
    ELSE c

lower(s) == [i \in 1..Len(s) |-> LowerChar(s[i])]
upper(s) == [i \in 1..Len(s) |-> UpperChar(s[i])]

\* str.rfind, 1-based, 0 when the character does not occur
rfind(p, ch) ==
    IF \E i \in 1..Len(p) : p[i] = ch
    THEN CHOOSE i \in 1..Len(p) : p[i] = ch /\ \A j \in (i+1)..Len(p) : p[j] # ch
    ELSE 0

EndsWith(p, e) ==
    Len(e) <= Len(p) /\ SubSeq(p, Len(p) - Len(e) + 1, Len(p)) = e

\* posixpath.splitext: the extension starts at the last dot of the last
\* component, unless only dots precede it in that component.
splitext(p) ==
    LET sepIndex == rfind(p, "/")
        dotIndex == rfind(p, ".")
    IN  IF dotIndex > sepIndex
           /\ \E k \in (sepIndex + 1)..(dotIndex - 1) : p[k] # "."
        THEN <<SubSeq(p, 1, dotIndex - 1), SubSeq(p, dotIndex, Len(p))>>
        ELSE <<p, <<>>>>

\* posixpath.dirname: everything before the last "/"
dirname(p) ==
    LET i == rfind(p, "/")
        head == SubSeq(p, 1, i)
    IN  IF head # <<>> /\ \E k \in 1..Len(head) : head[k] # "/"
        THEN SubSeq(head, 1,
                 CHOOSE k \in 1..Len(head) :
                     head[k] # "/" /\ \A j \in (k+1)..Len(head) : head[j] = "/")
        ELSE head

\* --------------------------------------------------- language classifier
None == "None"

ALLOWED_LANGUAGES == <<
    [language |-> "python",     extensions |-> << <<".","p","y">> >>],
    [language |-> "javascript", extensions |-> << <<".","j","s">>, <<".","j","s","x">> >>],
    [language |-> "typescript", extensions |-> << <<".","t","s">>, <<".","t","s","x">> >>],
    [language |-> "java",       extensions |-> << <<".","j","a","v","a">> >>],
    [language |-> "c",          extensions |-> << <<".","c">>, <<".","h">> >>],
    [language |-> "cpp",        extensions |-> << <<".","c","p","p">>, <<".","h","p","p">>,
                                                  <<".","c","c">>, <<".","h","h">>,
                                                  <<".","c","x","x">>, <<".","h","x","x">> >>],
    [language |-> "go",         extensions |-> << <<".","g","o">> >>],
    [language |-> "rust",       extensions |-> << <<".","r","s">> >>],
    [language |-> "ruby",       extensions |-> << <<".","r","b">> >>],
    [language |-> "php",        extensions |-> << <<".","p","h","p">> >>],
    [language |-> "swift",      extensions |-> << <<".","s","w","i","f","t">> >>],
    [language |-> "kotlin",     extensions |-> << <<".","k","t">>, <<".","k","t","s">> >>],
    [language |-> "scala",      extensions |-> << <<".","s","c","a","l","a">> >>],
    [language |-> "r",          extensions |-> << <<".","r">>, <<".","R">> >>],
    [language |-> "shell",      extensions |-> << <<".","s","h">>, <<".","b","a","s","h">> >>] >>

LanguageNames == {ALLOWED_LANGUAGES[i].language : i \in 1..Len(ALLOWED_LANGUAGES)}

\* the extension is cut at the last dot and the dot is dropped
get_language_no_dot(file_path) ==
    LET low == lower(file_path)
        d == rfind(low, ".")
        ext == SubSeq(low, d + 1, Len(low))
        hits == {i \in 1..Len(ALLOWED_LANGUAGES) :
                    ext \in Range(ALLOWED_LANGUAGES[i].extensions)}
    IN  IF hits = {} THEN None
        ELSE ALLOWED_LANGUAGES[CHOOSE i \in hits : \A j \in hits : i <= j].language

\* the loop returns at the first entry, in table order, that lists ext
get_language_from_filepath(file_path) ==
    LET ext == splitext(lower(file_path))[2]
        hits == {i \in 1..Len(ALLOWED_LANGUAGES) :
                    ext \in Range(ALLOWED_LANGUAGES[i].extensions)}
    IN  IF hits = {} THEN None
        ELSE ALLOWED_LANGUAGES[CHOOSE i \in hits : \A j \in hits : i <= j].language

\* ------------------------------------------------------------ idle values
\* A script that is not the one running keeps its variables at these.
ClsIdle == arg_file_path = <<>> /\ ret_language = "idle"

ColIdle ==
    /\ languages = <<>> /\ sample_size = 0 /\ output_path = <<>>
    /\ source = <<>> /\ streaming_data = "idle" /\ target_extensions = <<>>
    /\ collected_data = <<>> /\ total_checked = 0 /\ language_counts = <<>>
    /\ output_file = <<>> /\ col_error = <<>> /\ col_pc = "idle"

GenIdle ==
    /\ code_entries = <<>> /\ strategies_per_code = 0 /\ skip_errors = FALSE
    /\ max_code_length = 0 /\ sft_dataset = <<>> /\ entry_index = 0
    /\ strategy_index = 0 /\ llm_calls = <<>> /\ gen_result = <<>>
    /\ gen_pc = "idle"

HarIdle ==
    /\ input_tree = <<>> /\ total_code_path_lst = <<>> /\ path_index = 0
    /\ harvest_dataset = <<>> /\ check_token_size_list = <<>>
    /\ harvest_file = <<>> /\ harvest_pc = "idle"

TrnIdle ==
    /\ data_sources = <<>> /\ source_index = 0 /\ datasets_to_combine = <<>>
    /\ dataset = <<>> /\ combined_dataset = <<>> /\ trainer = <<>>
    /\ saved_model = <<>> /\ train_error = <<>> /\ train_pc = "idle"

\* =========================================================================
\* The classifier on its own: one call of get_language_from_filepath
\* =========================================================================
ListedExtensions ==
    UNION {Range(ALLOWED_LANGUAGES[i].extensions) : i \in 1..Len(ALLOWED_LANGUAGES)}

\* extensions no language lists, and texts that are no extension at all
UnlistedExtensions ==
    { <<>>, <<".">>, <<".","t","x","t">>, <<".","p","y","c">>, <<".","p">>,
      <<"p","y">>, <<".","p","y","/">>, <<".","p","y",".">> }

ExtensionPool ==
    ListedExtensions \cup {upper(e) : e \in ListedExtensions} \cup UnlistedExtensions

StemChars == {"a", "B", ".", "/"}

ClassifierPaths ==
    {stem \o e : stem \in SeqsUpTo(StemChars, MaxStem), e \in ExtensionPool}

InitClassifier ==
    /\ arg_file_path \in ClassifierPaths
    /\ ret_language = "pending"
    /\ ColIdle /\ GenIdle /\ HarIdle /\ TrnIdle

Classify ==
    /\ ret_language = "pending"
    /\ ret_language' = get_language_from_filepath(arg_file_path)
    /\ UNCHANGED <<arg_file_path, colVars, genVars, harVars, trnVars>>

NextClassifier == Classify

SpecClassifier == InitClassifier /\ [][NextClassifier]_vars

\* =========================================================================
\* Claims about the classifier
\* =========================================================================
\* the languages whose list holds extension e
Owners(e) ==
    {ALLOWED_LANGUAGES[i].language :
        i \in {k \in 1..Len(ALLOWED_LANGUAGES) : e \in Range(ALLOWED_LANGUAGES[k].extensions)}}

\* the part of the last path component that precedes a trailing extension e
StemBefore(p, e) ==
    LET body == SubSeq(p, 1, Len(p) - Len(e))
    IN  SubSeq(body, rfind(body, "/") + 1, Len(body))

Classified == ret_language # "pending"

\* C3 as stated: every path that ends in a listed extension is classified
\* to the one language listing it, no extension has two owners, and a path
\* whose (lowercased) extension nobody lists is classified None.
C3_Original ==
    Classified =>
        /\ \A e \in ListedExtensions :
              /\ Cardinality(Owners(e)) = 1
              /\ EndsWith(arg_file_path, e) => Owners(e) = {ret_language}
        /\ splitext(lower(arg_file_path))[2] \notin ListedExtensions
              => ret_language = None

\* C3 amended: the same, for paths whose last component has a character
\* other than "." in front of the listed extension; a component made only
\* of dots and the extension (".py", "src/.py") has no extension: None.
C3_Classifier ==
    Classified =>
        /\ \A e \in ListedExtensions :
              /\ Cardinality(Owners(e)) = 1
              /\ EndsWith(arg_file_path, e) =>
                    IF \E k \in 1..Len(StemBefore(arg_file_path, e)) :
                           StemBefore(arg_file_path, e)[k] # "."
                    THEN Owners(e) = {ret_language}
                    ELSE ret_language = None
        /\ splitext(lower(arg_file_path))[2] \notin ListedExtensions
              => ret_language = None

\* a path with a listed extension classified to a language, the listed
\* upper-case ".R" among them
C3_Witness ==
    /\ Classified
    /\ EndsWith(arg_file_path, <<".","R">>)
    /\ Len(arg_file_path) > 2
    /\ ret_language = "r"

\* =========================================================================
\* The collector: filtering_github2025.main
\* =========================================================================
\* A source record: the keys it carries and their values (the value of a
\* key it does not carry is never read).
Example(keys, file_path, repo_id, size, content) ==
    [keys |-> keys, file_path |-> file_path, repo_id |-> repo_id,
     size |-> size, content |-> content]

ExamplePool ==
    { Example({"file_path", "repo_id", "size", "content"},
              <<"a",".","p","y">>, "r1", 9, <<"x">>),
      Example({"file_path", "content"},
              <<"b",".","P","Y">>, "", 0, <<"y","z">>),
      Example({"file_path", "repo_id", "size", "content"},
              <<"s","/","c",".","h">>, "r2", 1, <<"h">>),
      Example({"file_path", "repo_id"},
              <<"R","E","A","D","M","E">>, "r2", 0, <<>>),
      Example({"repo_id", "size", "content"},
              <<>>, "r3", 2, <<"p","y">>) }

\* a field of the source that holds null: Python's None, which is no str
NullValue == <<"<null>">>

\* an example whose file_path is present and null
NullPathExample ==
    Example({"file_path", "repo_id", "size", "content"},
            NullValue, "r4", 1, <<"n">>)

\* the streams the source can yield: any examples of the pool, and the same
\* followed by the example with the null path (no example after it is read,
\* because processing it ends the run)
Sources ==
    SeqsUpTo(ExamplePool, MaxStream)
        \cup { Append(s, NullPathExample) : s \in SeqsUpTo(ExamplePool, MaxStream - 1) }

\* --languages values: nargs='+' gives a non-empty list of any strings
LanguageArgs ==
    { <<"python">>, <<"c", "cpp">>, <<"r", "python">>, <<"cobol", "python", "C">> }

OutputPaths ==
    { <<"d","/","o",".","j">>, <<"o",".","j">> }

SampleSizes == (-1)..MaxSampleSize

NoError == [type |-> "none", names |-> <<>>]
NoFile == [exists |-> FALSE, data |-> <<>>]

InitCollector ==
    /\ languages \in LanguageArgs
    /\ sample_size \in SampleSizes
    /\ output_path \in OutputPaths
    /\ source \in Sources
    /\ streaming_data = "unopened"
    /\ target_extensions = <<>>
    /\ collected_data = <<>>
    /\ total_checked = 0
    /\ language_counts = <<>>
    /\ output_file = NoFile
    /\ col_error = NoError
    /\ col_pc = "validate"
    /\ ClsIdle /\ GenIdle /\ HarIdle /\ TrnIdle

\* only the first requested name is looked up
invalid_first_only(langs) ==
    SelectSeq(Take(langs, 1), LAMBDA lang : lang \notin LanguageNames)

\* validate_languages: the names that are no key of the table
invalid_languages(langs) ==
    SelectSeq(langs, LAMBDA lang : lang \notin LanguageNames)

ExtensionsOf(lang) ==
    ALLOWED_LANGUAGES[CHOOSE i \in 1..Len(ALLOWED_LANGUAGES) :
                          ALLOWED_LANGUAGES[i].language = lang].extensions

RECURSIVE Extend(_, _)
\* target_extensions.extend(ALLOWED_LANGUAGES[lang]) for each lang
Extend(acc, langs) ==
    IF langs = <<>> THEN acc
    ELSE Extend(acc \o ExtensionsOf(Head(langs)), Tail(langs))

\* lines 107-116: the assertion passes and the extension list is built
ValidateOk ==
    /\ col_pc = "validate"
    /\ invalid_languages(languages) = <<>>
    /\ target_extensions' = Extend(<<>>, languages)
    /\ col_pc' = "load"
    /\ UNCHANGED <<languages, sample_size, output_path, source, streaming_data,
                   collected_data, total_checked, language_counts, output_file,
                   col_error>>
    /\ UNCHANGED <<clsVars, genVars, harVars, trnVars>>

\* lines 95-100: the assertion fails, naming the invalid languages
ValidateFail ==
    /\ col_pc = "validate"
    /\ invalid_languages(languages) # <<>>
    /\ col_error' = [type |-> "AssertionError",
                     names |-> invalid_languages(languages)]
    /\ col_pc' = "failed"
    /\ UNCHANGED <<languages, sample_size, output_path, source, streaming_data,
                   target_extensions, collected_data, total_checked,
                   language_counts, output_file>>
    /\ UNCHANGED <<clsVars, genVars, harVars, trnVars>>

\* lines 120-128: the streaming source is opened
LoadDataset ==
    /\ col_pc = "load"
    /\ streaming_data' = "open"
    /\ collected_data' = <<>>
    /\ total_checked' = 0
    /\ col_pc' = "loop"
    /\ UNCHANGED <<languages, sample_size, output_path, source,
                   target_extensions, language_counts, output_file, col_error>>
    /\ UNCHANGED <<clsVars, genVars, harVars, trnVars>>

\* lines 143-148: the record kept for a matching example
CodeRecord(example) ==
    LET content == IF "content" \in example.keys THEN example.content ELSE <<>>
    IN  [repo_id |-> IF "repo_id" \in example.keys THEN example.repo_id ELSE "unknown",
         size |-> IF "size" \in example.keys THEN example.size ELSE Len(content),
         file_path |-> example.file_path,
         content |-> content]

\* lines 135-141: the example is one to collect
Wanted(example, langs) ==
    /\ "file_path" \in example.keys
    /\ get_language_from_filepath(example.file_path) \in Range(langs)

\* a record without file_path ends the loop
LoopBodyBreakOnMissing(example, collected, size, langs) ==
    IF "file_path" \notin example.keys
    THEN [collected |-> collected, stop |-> TRUE]
    ELSE LET kept == IF Wanted(example, langs)
                     THEN Append(collected, CodeRecord(example))
                     ELSE collected
         IN  [collected |-> kept, stop |-> Len(kept) >= size]

\* lines 132-157, one pass of the loop body: the list afterwards and whether
\* the body left the loop by break
LoopBody(example, collected, size, langs) ==
    IF "file_path" \notin example.keys
    THEN [collected |-> collected, stop |-> FALSE]
    ELSE LET kept == IF Wanted(example, langs)
                     THEN Append(collected, CodeRecord(example))
                     ELSE collected
         IN  [collected |-> kept, stop |-> Len(kept) >= size]

\* lines 135-138 and 46: file_path.lower() on a path that is no str raises
\* AttributeError
RaisesInBody(example) ==
    /\ "file_path" \in example.keys
    /\ example.file_path = NullValue

\* line 131 yields the next example and lines 132-157 process it
NextExample ==
    /\ col_pc = "loop"
    /\ total_checked < Len(source)
    /\ ~RaisesInBody(source[total_checked + 1])
    /\ LET r == LoopBody(source[total_checked + 1], collected_data,
                         sample_size, languages)
       IN  /\ collected_data' = r.collected
           /\ col_pc' = IF r.stop THEN "finally" ELSE "loop"
    /\ total_checked' = total_checked + 1
    /\ UNCHANGED <<languages, sample_size, output_path, source, streaming_data,
                   target_extensions, language_counts, output_file, col_error>>
    /\ UNCHANGED <<clsVars, genVars, harVars, trnVars>>

\* lines 131-138: the next example is counted and processing it raises
ExampleRaises ==
    /\ col_pc = "loop"
    /\ total_checked < Len(source)
    /\ RaisesInBody(source[total_checked + 1])
    /\ total_checked' = total_checked + 1
    /\ col_error' = [type |-> "AttributeError", names |-> <<>>]
    /\ col_pc' = "finally"
    /\ UNCHANGED <<languages, sample_size, output_path, source, streaming_data,
                   target_extensions, collected_data, language_counts,
                   output_file>>
    /\ UNCHANGED <<clsVars, genVars, harVars, trnVars>>

\* line 131: the source has no more examples
SourceExhausted ==
    /\ col_pc = "loop"
    /\ total_checked = Len(source)
    /\ col_pc' = "finally"
    /\ UNCHANGED <<languages, sample_size, output_path, source, streaming_data,
                   target_extensions, collected_data, total_checked,
                   language_counts, output_file, col_error>>
    /\ UNCHANGED <<clsVars, genVars, harVars, trnVars>>

\* line 131: fetching the next example raises (the source is remote)
SourceRaises ==
    /\ col_pc = "loop"
    /\ total_checked = Len(source)
    /\ col_error' = [type |-> "IterationError", names |-> <<>>]
    /\ col_pc' = "finally"
    /\ UNCHANGED <<languages, sample_size, output_path, source, streaming_data,
                   target_extensions, collected_data, total_checked,
                   language_counts, output_file>>
    /\ UNCHANGED <<clsVars, genVars, harVars, trnVars>>

\* the source is dropped after the loop only when no exception is pending
FinallyOnSuccessOnly ==
    /\ col_pc = "finally"
    /\ streaming_data' = IF col_error = NoError THEN "released" ELSE streaming_data
    /\ col_pc' = IF col_error = NoError THEN "report" ELSE "failed"
    /\ UNCHANGED <<languages, sample_size, output_path, source,
                   target_extensions, collected_data, total_checked,
                   language_counts, output_file, col_error>>
    /\ UNCHANGED <<clsVars, genVars, harVars, trnVars>>

\* lines 158-160: the finally block drops the source; a pending exception
\* goes on to the caller
Finally ==
    /\ col_pc = "finally"
    /\ streaming_data' = "released"
    /\ col_pc' = IF col_error = NoError THEN "report" ELSE "failed"
    /\ UNCHANGED <<languages, sample_size, output_path, source,
                   target_extensions, collected_data, total_checked,
                   language_counts, output_file, col_error>>
    /\ UNCHANGED <<clsVars, genVars, harVars, trnVars>>

RECURSIVE CountLanguages(_, _)
\* lines 171-174: language_counts, as a function from language to count
CountLanguages(counts, data) ==
    IF data = <<>> THEN counts
    ELSE LET lang == get_language_from_filepath(Head(data).file_path)
             old == IF lang \in DOMAIN counts THEN counts[lang] ELSE 0
         IN  CountLanguages([l \in DOMAIN counts \cup {lang} |->
                                 IF l = lang THEN old + 1 ELSE counts[l]],
                            Tail(data))

\* lines 162-185 with an output path that has a directory part: the
\* directory is made and the list is written
ReportAndSave ==
    /\ col_pc = "report"
    /\ dirname(output_path) # <<>>
    /\ language_counts' = CountLanguages(<<>>, collected_data)
    /\ output_file' = [exists |-> TRUE, data |-> collected_data]
    /\ col_pc' = "done"
    /\ UNCHANGED <<languages, sample_size, output_path, source, streaming_data,
                   target_extensions, collected_data, total_checked, col_error>>
    /\ UNCHANGED <<clsVars, genVars, harVars, trnVars>>

\* lines 162-181 with a bare file name: os.makedirs("") raises
ReportAndFail ==
    /\ col_pc = "report"
    /\ dirname(output_path) = <<>>
    /\ language_counts' = CountLanguages(<<>>, collected_data)
    /\ col_error' = [type |-> "FileNotFoundError", names |-> <<>>]
    /\ col_pc' = "failed"
    /\ UNCHANGED <<languages, sample_size, output_path, source, streaming_data,
                   target_extensions, collected_data, total_checked, output_file>>
    /\ UNCHANGED <<clsVars, genVars, harVars, trnVars>>

NextCollector ==
    \/ ValidateOk
    \/ ValidateFail
    \/ LoadDataset
    \/ NextExample
    \/ ExampleRaises
    \/ SourceExhausted
    \/ SourceRaises
    \/ Finally
    \/ ReportAndSave
    \/ ReportAndFail

SpecCollector == InitCollector /\ [][NextCollector]_vars

\* =========================================================================
\* Claims about the collector
\* =========================================================================
\* the collection loop of lines 130-157 is over
LoopEnded ==
    \/ col_pc \in {"finally", "report", "done"}
    \/ col_pc = "failed" /\ streaming_data = "released"

\* the examples of the source that carry file_path and are classified to a
\* requested language, as the records the collector keeps for them
MatchingRecords ==
    LET wanted == SelectSeq(source, LAMBDA ex :
                      /\ "file_path" \in ex.keys
                      /\ get_language_from_filepath(ex.file_path) \in Range(languages))
    IN  [i \in 1..Len(wanted) |-> CodeRecord(wanted[i])]

\* C1: when the loop has ended, the collected list holds at most sample_size
\* records (for every integer sample_size, 0 and negative included) and
\* every collected record is classified to a requested language.  No list
\* holds fewer than 0 records, so a negative sample_size is read as 0.
C1_AtMostSampleSize ==
    LoopEnded =>
        /\ Len(collected_data) <= (IF sample_size < 0 THEN 0 ELSE sample_size)
        /\ \A i \in 1..Len(collected_data) :
              get_language_from_filepath(collected_data[i].file_path)
                  \in Range(languages)

\* C2: for sample_size >= 1, once the loop has ended without an exception
\* raised in it, the collected list (and the file written from it) is exactly
\* the first min(sample_size, m) of the m matching records, in source order.
C2_FirstMatches ==
    (sample_size >= 1 /\ LoopEnded
        /\ col_error.type \notin {"IterationError", "AttributeError"}) =>
        /\ collected_data =
              Take(MatchingRecords, Min(sample_size, Len(MatchingRecords)))
        /\ output_file.exists => output_file.data = collected_data

\* a run that wrote two records and stopped there, having passed over a
\* record without file_path that came before the second of them
C2_Witness ==
    /\ col_pc = "done"
    /\ sample_size = 2
    /\ Len(output_file.data) = 2
    /\ \E i \in 2..(total_checked - 1) : "file_path" \notin source[i].keys

\* the requested names that are no language of the table, in request order
Unrecognized ==
    SelectSeq(languages, LAMBDA name :
        \A i \in 1..Len(ALLOWED_LANGUAGES) : ALLOWED_LANGUAGES[i].language # name)

\* C11: when a requested name is no key of ALLOWED_LANGUAGES, the run fails
\* at validation with an error naming exactly the unrecognized names; the
\* source is never opened, no record is consumed and no file is written.
C11_InvalidLanguageFailsFirst ==
    Unrecognized # <<>> =>
        /\ streaming_data = "unopened"
        /\ total_checked = 0
        /\ collected_data = <<>>
        /\ ~output_file.exists
        /\ col_pc \in {"validate", "failed"}
        /\ col_pc = "failed" =>
              col_error = [type |-> "AssertionError", names |-> Unrecognized]

\* a failed run whose error names the two unrecognized names of three
\* requested ones
C11_Witness ==
    /\ col_pc = "failed"
    /\ Len(languages) = 3
    /\ col_error.names = <<"cobol", "C">>
    /\ streaming_data = "unopened"

\* processing the example read last raised (its file_path is null)
LastExampleRaised ==
    /\ total_checked >= 1
    /\ "file_path" \in source[total_checked].keys
    /\ source[total_checked].file_path = <<"<null>">>

\* C12: once the source has been acquired it is open only while the loop
\* runs or its finally block is about to run; past that point (source
\* exhausted, break at the target count, or an exception from the iteration
\* or from processing a record) it has been released.  An exception raised
\* in the loop is still the run's error after the release: the run has
\* failed with it and no output file has been written.
C12_ReleasedOnEveryExit ==
    /\ streaming_data = "open" => col_pc \in {"loop", "finally"}
    /\ col_pc \in {"report", "done"} => streaming_data = "released"
    /\ (col_pc = "failed" /\ col_error.type # "AssertionError") =>
           streaming_data = "released"
    /\ (col_error.type \in {"IterationError", "AttributeError"}
           /\ col_pc # "finally") =>
           col_pc = "failed" /\ ~output_file.exists
    /\ (LastExampleRaised /\ col_pc # "finally") =>
           /\ col_pc = "failed"
           /\ col_error.type = "AttributeError"
           /\ ~output_file.exists

\* a run that had collected a record when processing a later one raised:
\* it has failed with that exception, the source released, no file written
C12_Witness ==
    /\ col_pc = "failed"
    /\ col_error.type = "AttributeError"
    /\ streaming_data = "released"
    /\ Len(collected_data) >= 1
    /\ ~output_file.exists

\* for sample_size >= 1: when the collected count has reached sample_size
\* the loop has been left, and the example read last is the one whose record
\* brought the count there, so no example was read after that step
StopsAtTarget ==
    (sample_size >= 1 /\ Len(collected_data) >= sample_size) =>
        /\ col_pc # "loop"
        /\ Len(collected_data) = sample_size
        /\ total_checked >= 1
        /\ "file_path" \in source[total_checked].keys
        /\ collected_data[sample_size] = CodeRecord(source[total_checked])

\* for sample_size >= 1: a run over a source with fewer matches than
\* sample_size, in which no exception was raised in the loop, ends with the
\* whole source read and the records collected so far written
WrittenAtExhaustion ==
    (/\ sample_size >= 1
     /\ col_pc \in {"done", "failed"}
     /\ streaming_data = "released"
     /\ col_error.type \notin {"IterationError", "AttributeError"}
     /\ Len(MatchingRecords) < sample_size) =>
        /\ total_checked = Len(source)
        /\ output_file = [exists |-> TRUE, data |-> collected_data]

\* C13: for sample_size >= 1 no source record is consumed after the step
\* in which the collected count first reaches sample_size (records without
\* file_path do not carry the loop past the stop check), and on a finite
\* source with fewer matches the loop ends at exhaustion and the output is
\* still written with the records collected so far.
C13_StopsAndWrites ==
    StopsAtTarget /\ WrittenAtExhaustion

\* =========================================================================
\* The prompt-pair generator: SFTDataGenerator.generate_sft_data
\* =========================================================================
MaxEntries == 2             \* records in code_entries
MaxCodeLength == 2          \* --max_code_length
MaxStrategiesPerCode == 5   \* largest --strategies_per_code

\* lines 33-42: the menu, in order (the other four are commented out)
strategies ==
    <<"code_documentation", "code_completion", "function_implementation",
      "code_summary">>

\* a text of n characters, several lines of it
CodeOfLength(n) == [i \in 1..n |-> IF i % 2 = 1 THEN "x" ELSE "\n"]

Entry(repo_id, file_path, content) ==
    [repo_id |-> repo_id, file_path |-> file_path, content |-> content]

\* contents below, at and above the maximum length
EntryPool ==
    { Entry("r1", <<"a",".","p","y">>, CodeOfLength(MaxCodeLength - 1)),
      Entry("r2", <<"b",".","C">>, CodeOfLength(MaxCodeLength)),
      Entry("r3", <<"n","o","e","x","t">>, CodeOfLength(MaxCodeLength + 1)) }

StrategyCounts == (-1)..MaxStrategiesPerCode

Pending == [kind |-> "pending", value |-> <<>>]

InitGenerator ==
    /\ code_entries \in SeqsUpTo(EntryPool, MaxEntries)
    /\ strategies_per_code \in StrategyCounts
    /\ skip_errors \in BOOLEAN
    /\ max_code_length = MaxCodeLength
    /\ sft_dataset = <<>>
    /\ entry_index = 1
    /\ strategy_index = 0
    /\ llm_calls = <<>>
    /\ gen_result = Pending
    /\ gen_pc = "entry"
    /\ ClsIdle /\ ColIdle /\ HarIdle /\ TrnIdle

\* Python's s[:n]
SlicePrefix(s, n) ==
    IF n >= 0 THEN SubSeq(s, 1, Min(n, Len(s)))
    ELSE SubSeq(s, 1, IF Len(s) + n > 0 THEN Len(s) + n ELSE 0)

\* the last n of the menu are taken for the first n
selected_from_end(n) ==
    IF n >= 0 THEN SubSeq(strategies, Len(strategies) - Min(n, Len(strategies)) + 1,
                          Len(strategies))
    ELSE SlicePrefix(strategies, n)

\* line 366
selected_strategies(n) == SlicePrefix(strategies, n)

RECURSIVE Split(_, _)
\* str.split(sep): the pieces between the separators
Split(s, sep) ==
    IF \E i \in 1..Len(s) : s[i] = sep
    THEN LET i == CHOOSE k \in 1..Len(s) :
                      s[k] = sep /\ \A j \in 1..(k-1) : s[j] # sep
         IN  <<SubSeq(s, 1, i - 1)>> \o Split(SubSeq(s, i + 1, Len(s)), sep)
    ELSE <<s>>

RECURSIVE Join(_, _)
\* sep.join(pieces)
Join(pieces, sep) ==
    IF pieces = <<>> THEN <<>>
    ELSE IF Len(pieces) = 1 THEN pieces[1]
    ELSE pieces[1] \o <<sep>> \o Join(Tail(pieces), sep)

\* lines 160-163: about the first 70% of the lines
partial_code(code) ==
    LET lines == Split(code, "\n")
        cutoff == (Len(lines) * 7) \div 10
    IN  Join(SubSeq(lines, 1, cutoff), "\n")

\* lines 193-207: the language tag of the code block
lang_map(file_ext) ==
    CASE file_ext = <<"p","y">> -> <<"p","y","t","h","o","n">>
      [] file_ext = <<"j","s">> -> <<"j","a","v","a","s","c","r","i","p","t">>
      [] file_ext = <<"t","s">> -> <<"t","y","p","e","s","c","r","i","p","t">>
      [] file_ext = <<"j","a","v","a">> -> <<"j","a","v","a">>
      [] file_ext = <<"c","p","p">> -> <<"c","p","p">>
      [] file_ext = <<"c">> -> <<"c">>
      [] file_ext = <<"g","o">> -> <<"g","o">>
      [] file_ext = <<"r","s">> -> <<"r","u","s","t">>
      [] file_ext = <<"r","b">> -> <<"r","u","b","y">>
      [] file_ext = <<"p","h","p">> -> <<"p","h","p">>
      [] OTHER -> <<>>

\* line 193: file_path.split('.')[-1].lower()
file_ext(file_path) ==
    LET parts == Split(file_path, ".")
    IN  lower(parts[Len(parts)])

\* The PromptPair a strategy returns when its chat call answers `reply`.
\* A fixed piece of prompt text is one element of the sequence; <fence> is
\* the three-backquote code fence.
StrategyResult(strategy, code_entry, reply) ==
    LET code == code_entry.content
        metadata == [strategy |-> strategy, repo_id |-> code_entry.repo_id,
                     file_path |-> code_entry.file_path]
    IN  CASE strategy = "code_documentation" ->
                [instruction |-> <<"add comments and docstrings:\n\n<fence>\n">>
                                    \o code \o <<"\n<fence>">>,
                 output |-> reply, metadata |-> metadata]
          [] strategy = "code_completion" ->
                [instruction |-> <<"complete the unfinished code:\n\n<fence>\n">>
                                    \o partial_code(code) \o <<"\n<fence>">>,
                 output |-> reply, metadata |-> metadata]
          [] strategy = "function_implementation" ->
                [instruction |-> reply,
                 output |-> <<"<fence>">> \o lang_map(file_ext(code_entry.file_path))
                               \o <<"\n">> \o code \o <<"\n<fence>">>,
                 metadata |-> metadata]
          [] strategy = "code_summary" ->
                [instruction |-> <<"summarise the code:\n\n<fence>\n">>
                                    \o code \o <<"\n<fence>">>,
                 output |-> reply, metadata |-> metadata]

\* what the chat model may answer
Replies == { <<"reply">> }

\* the length test lets a text of exactly the maximum length be skipped
TooLongInclusive(code_entry, max) == Len(code_entry.content) >= max

\* line 361
TooLong(code_entry, max) == Len(code_entry.content) > max

\* the position after strategy j of entry i: the next selected strategy, or
\* the next entry
AfterStrategy(i, j) ==
    IF j < Len(selected_strategies(strategies_per_code))
    THEN [entry |-> i, strategy |-> j + 1, pc |-> "strategy"]
    ELSE [entry |-> i + 1, strategy |-> 0, pc |-> "entry"]

\* the failure leaves the strategies of the entry: break for continue
AfterFailureBreak(i, j) == [entry |-> i + 1, strategy |-> 0, pc |-> "entry"]

\* line 376: continue, on to the next selected strategy
AfterFailure(i, j) == AfterStrategy(i, j)

\* the partial list is handed back where the error should be raised
RaisedResultPartial(partial) == [kind |-> "returned", value |-> partial]

\* line 378: the call ends by raising; nothing is returned
RaisedResult(partial) == [kind |-> "raised", value |-> <<>>]

\* lines 359-363: the entry is too long and is passed over
SkipEntry ==
    /\ gen_pc = "entry"
    /\ entry_index <= Len(code_entries)
    /\ TooLong(code_entries[entry_index], max_code_length)
    /\ entry_index' = entry_index + 1
    /\ UNCHANGED <<code_entries, strategies_per_code, skip_errors,
                   max_code_length, sft_dataset, strategy_index, llm_calls,
                   gen_result, gen_pc>>
    /\ UNCHANGED <<clsVars, colVars, harVars, trnVars>>

\* lines 359-368: the entry is taken and its strategies are selected
SelectStrategies ==
    /\ gen_pc = "entry"
    /\ entry_index <= Len(code_entries)
    /\ ~TooLong(code_entries[entry_index], max_code_length)
    /\ IF selected_strategies(strategies_per_code) = <<>>
       THEN /\ entry_index' = entry_index + 1
            /\ UNCHANGED <<strategy_index, gen_pc>>
       ELSE /\ strategy_index' = 1
            /\ gen_pc' = "strategy"
            /\ UNCHANGED entry_index
    /\ UNCHANGED <<code_entries, strategies_per_code, skip_errors,
                   max_code_length, sft_dataset, llm_calls, gen_result>>
    /\ UNCHANGED <<clsVars, colVars, harVars, trnVars>>

\* one llm.invoke of the strategy at hand
Call(ok) ==
    [entry |-> entry_index,
     strategy |-> selected_strategies(strategies_per_code)[strategy_index],
     ok |-> ok]

\* lines 369-371: the strategy returns and its pair is appended
StrategySucceeds ==
    /\ gen_pc = "strategy"
    /\ \E reply \in Replies :
          sft_dataset' = Append(sft_dataset,
              StrategyResult(selected_strategies(strategies_per_code)[strategy_index],
                             code_entries[entry_index], reply))
    /\ llm_calls' = Append(llm_calls, Call(TRUE))
    /\ entry_index' = AfterStrategy(entry_index, strategy_index).entry
    /\ strategy_index' = AfterStrategy(entry_index, strategy_index).strategy
    /\ gen_pc' = AfterStrategy(entry_index, strategy_index).pc
    /\ UNCHANGED <<code_entries, strategies_per_code, skip_errors,
                   max_code_length, gen_result>>
    /\ UNCHANGED <<clsVars, colVars, harVars, trnVars>>

\* lines 372-376: the strategy raises and skip_errors lets the loop go on
StrategyFailsSkipped ==
    /\ gen_pc = "strategy"
    /\ skip_errors
    /\ llm_calls' = Append(llm_calls, Call(FALSE))
    /\ entry_index' = AfterFailure(entry_index, strategy_index).entry
    /\ strategy_index' = AfterFailure(entry_index, strategy_index).strategy
    /\ gen_pc' = AfterFailure(entry_index, strategy_index).pc
    /\ UNCHANGED <<code_entries, strategies_per_code, skip_errors,
                   max_code_length, sft_dataset, gen_result>>
    /\ UNCHANGED <<clsVars, colVars, harVars, trnVars>>

\* lines 372-378: the strategy raises and the error is raised again
StrategyFailsRaised ==
    /\ gen_pc = "strategy"
    /\ ~skip_errors
    /\ llm_calls' = Append(llm_calls, Call(FALSE))
    /\ gen_result' = RaisedResult(sft_dataset)
    /\ gen_pc' = "done"
    /\ UNCHANGED <<code_entries, strategies_per_code, skip_errors,
                   max_code_length, sft_dataset, entry_index, strategy_index>>
    /\ UNCHANGED <<clsVars, colVars, harVars, trnVars>>

\* line 380: the entries are used up and the list is returned
ReturnDataset ==
    /\ gen_pc = "entry"
    /\ entry_index > Len(code_entries)
    /\ gen_result' = [kind |-> "returned", value |-> sft_dataset]
    /\ gen_pc' = "done"
    /\ UNCHANGED <<code_entries, strategies_per_code, skip_errors,
                   max_code_length, sft_dataset, entry_index, strategy_index,
                   llm_calls>>
    /\ UNCHANGED <<clsVars, colVars, harVars, trnVars>>

NextGenerator ==
    \/ SkipEntry
    \/ SelectStrategies
    \/ StrategySucceeds
    \/ StrategyFailsSkipped
    \/ StrategyFailsRaised
    \/ ReturnDataset

SpecGenerator == InitGenerator /\ [][NextGenerator]_vars

\* =========================================================================
\* Claims about the generator
\* =========================================================================
GenDone == gen_pc = "done"

\* the calls made for entry i, and those of them that returned
CallsOf(i) == SelectSeq(llm_calls, LAMBDA c : c.entry = i)
PairsOf(i) == SelectSeq(llm_calls, LAMBDA c : c.entry = i /\ c.ok)

RECURSIVE AttemptsFrom(_)
\* every (entry, strategy) the loops visit when nothing stops them: the
\* entries from i on that are not too long, each with its selected strategies
AttemptsFrom(i) ==
    IF i > Len(code_entries) THEN <<>>
    ELSE (IF Len(code_entries[i].content) > max_code_length THEN <<>>
          ELSE [j \in 1..Len(SlicePrefix(strategies, strategies_per_code)) |->
                   <<i, SlicePrefix(strategies, strategies_per_code)[j]>>])
         \o AttemptsFrom(i + 1)

\* the (entry, strategy) of the calls made so far
Attempted == [k \in 1..Len(llm_calls) |-> <<llm_calls[k].entry, llm_calls[k].strategy>>]

\* the pairs of the calls that returned, in call order
PairsOfCalls ==
    LET okCalls == SelectSeq(llm_calls, LAMBDA c : c.ok)
    IN  [k \in 1..Len(okCalls) |->
            StrategyResult(okCalls[k].strategy, code_entries[okCalls[k].entry],
                           <<"reply">>)]

\* C4: in a call that returned, every entry not longer than max_code_length
\* has exactly strategies_per_code pairs when none of its calls failed, and
\* at most that many when skip_errors let a failure pass.  Stated for the
\* documented values of strategies_per_code (the help text: 1-8).
C4_PairsPerRecord ==
    (GenDone /\ gen_result.kind = "returned" /\ strategies_per_code >= 1) =>
        \A i \in 1..Len(code_entries) :
            Len(code_entries[i].content) <= max_code_length =>
                IF \A k \in 1..Len(CallsOf(i)) : CallsOf(i)[k].ok
                THEN Len(PairsOf(i)) = strategies_per_code
                ELSE skip_errors /\ Len(PairsOf(i)) <= strategies_per_code

\* C5: with skip_errors, a failing call appends nothing and keeps what was
\* accumulated (the list is always the pairs of the calls that returned),
\* every selected strategy of every entry that is not too long is still
\* attempted, in order, and the call ends by returning the accumulated list.
C5_SkipErrorsContinues ==
    skip_errors =>
        /\ sft_dataset = PairsOfCalls
        /\ Attempted = SubSeq(AttemptsFrom(1), 1, Len(llm_calls))
        /\ GenDone => /\ Attempted = AttemptsFrom(1)
                      /\ gen_result = [kind |-> "returned", value |-> sft_dataset]

\* a returned run in which a call failed, a later strategy of the same
\* entry returned, and a later entry was attempted
C5_Witness ==
    /\ skip_errors /\ GenDone /\ gen_result.kind = "returned"
    /\ \E k \in 1..Len(llm_calls) :
          /\ ~llm_calls[k].ok
          /\ \E m \in (k+1)..Len(llm_calls) :
                llm_calls[m].entry = llm_calls[k].entry /\ llm_calls[m].ok
          /\ \E m \in (k+1)..Len(llm_calls) :
                llm_calls[m].entry > llm_calls[k].entry
    /\ Len(sft_dataset) > 0

\* C6: without skip_errors a failing call is the last call ever made, the
\* run is over with an error raised to the caller, and no list is returned.
C6_FirstFailureAborts ==
    ~skip_errors =>
        /\ \A k \in 1..Len(llm_calls) :
              ~llm_calls[k].ok =>
                  /\ k = Len(llm_calls)
                  /\ GenDone
                  /\ gen_result = [kind |-> "raised", value |-> <<>>]
        /\ gen_result.kind = "returned" =>
              \A k \in 1..Len(llm_calls) : llm_calls[k].ok

\* an aborted run: pairs had been accumulated, the failing call left
\* strategies of its entry and a later entry unattempted
C6_Witness ==
    /\ ~skip_errors /\ GenDone /\ gen_result.kind = "raised"
    /\ Len(sft_dataset) > 0
    /\ strategy_index < Len(SlicePrefix(strategies, strategies_per_code))
    /\ entry_index < Len(code_entries)
    /\ Len(code_entries[entry_index + 1].content) <= max_code_length

\* C7: no call is ever made, and so no pair appended, for an entry longer
\* than max_code_length; the run goes on past it; an entry of exactly
\* max_code_length is processed like any shorter one.
C7_TooLongSkipped ==
    /\ \A k \in 1..Len(llm_calls) :
          Len(code_entries[llm_calls[k].entry].content) <= max_code_length
    /\ Len(sft_dataset) = Len(SelectSeq(llm_calls, LAMBDA c : c.ok))
    /\ (GenDone /\ gen_result.kind = "returned") =>
          \A i \in 1..Len(code_entries) :
              (/\ Len(code_entries[i].content) <= max_code_length
               /\ SlicePrefix(strategies, strategies_per_code) # <<>>)
                  => CallsOf(i) # <<>>

\* a returned run over a too-long entry followed by one of exactly the
\* maximum length, which got its pairs
C7_Witness ==
    /\ GenDone /\ gen_result.kind = "returned"
    /\ Len(code_entries) = 2
    /\ Len(code_entries[1].content) > max_code_length
    /\ Len(code_entries[2].content) = max_code_length
    /\ CallsOf(1) = <<>>
    /\ Len(PairsOf(2)) > 0
    /\ Len(sft_dataset) = Len(PairsOf(2))

\* the fixed menu, as documented
FixedMenu ==
    <<"code_documentation", "code_completion", "function_implementation",
      "code_summary">>

RECURSIVE MetadataFrom(_)
\* for the entries from i on, in input order: nothing for an entry longer
\* than max_code_length, else one metadata per each of the first
\* strategies_per_code menu entries, in menu order, carrying the entry's
\* repo_id and file_path
MetadataFrom(i) ==
    IF i > Len(code_entries) THEN <<>>
    ELSE (IF Len(code_entries[i].content) > max_code_length THEN <<>>
          ELSE [j \in 1..strategies_per_code |->
                   [strategy |-> FixedMenu[j],
                    repo_id |-> code_entries[i].repo_id,
                    file_path |-> code_entries[i].file_path]])
         \o MetadataFrom(i + 1)

\* C14: for 0 <= strategies_per_code <= 4 and no failing call, the call
\* returns, and the metadata of the returned list are grouped by input
\* record in input order; within each record that is not skipped the
\* strategies are the first strategies_per_code menu entries in menu order,
\* and repo_id and file_path are those of the record.
C14_GroupedInMenuOrder ==
    (/\ GenDone
     /\ strategies_per_code \in 0..4
     /\ \A k \in 1..Len(llm_calls) : llm_calls[k].ok) =>
        /\ gen_result.kind = "returned"
        /\ [k \in 1..Len(gen_result.value) |-> gen_result.value[k].metadata]
              = MetadataFrom(1)

\* a returned run without failures over two different records that are not
\* skipped, with three strategies each
C14_Witness ==
    /\ GenDone /\ gen_result.kind = "returned"
    /\ strategies_per_code = 3
    /\ \A k \in 1..Len(llm_calls) : llm_calls[k].ok
    /\ Len(code_entries) = 2
    /\ code_entries[1].repo_id # code_entries[2].repo_id
    /\ Len(gen_result.value) = 6

\* =========================================================================
\* The local harvester: make_autosar_cpt_data.main
\* =========================================================================
MaxDepth == 2     \* levels of the directory tree under input_dir

\* entry names in the order the file system lists them: a plain name and a
\* dot-prefixed one
Names == <<"a", ".h">>

\* what an entry is: a directory, or a file that is UTF-8 text, CP949 text
\* that is no valid UTF-8, or text in neither encoding
FileKinds == {"utf8", "cp949", "binary"}
EntryKinds == {"absent", "dir"} \cup FileKinds

\* paths under input_dir, as sequences of names
TreePaths == UNION {[1..k -> Range(Names)] : k \in 1..MaxDepth}

Parent(p) == SubSeq(p, 1, Len(p) - 1)

\* the trees: an entry exists only inside a directory that exists
Trees ==
    {t \in [TreePaths -> EntryKinds] :
        \A p \in TreePaths :
            (Len(p) > 1 /\ t[p] # "absent") => t[Parent(p)] = "dir"}

InitHarvester ==
    /\ input_tree \in Trees
    /\ total_code_path_lst = <<>>
    /\ path_index = 0
    /\ harvest_dataset = <<>>
    /\ check_token_size_list = <<>>
    /\ harvest_file = NoFile
    /\ harvest_pc = "glob"
    /\ ClsIdle /\ ColIdle /\ GenIdle /\ TrnIdle

\* glob._ishidden
ishidden(name) == name \in {".h"}

IsDirAt(t, d) == d = <<>> \/ (d \in TreePaths /\ t[d] = "dir")

RECURSIVE ListAll(_, _, _)
\* every entry of directory d, from the k-th name on
ListAll(t, d, k) ==
    IF k > Len(Names) \/ Len(d) >= MaxDepth \/ ~IsDirAt(t, d) THEN <<>>
    ELSE (IF t[Append(d, Names[k])] # "absent"
          THEN <<Append(d, Names[k])>> ELSE <<>>) \o ListAll(t, d, k + 1)

\* glob1 with pattern "*": the entries of d that are not hidden
glob1(t, d) == SelectSeq(ListAll(t, d, 1), LAMBDA p : ~ishidden(p[Len(p)]))

RECURSIVE rlistdir(_, _)
RECURSIVE rlistdirEach(_, _)
\* glob._rlistdir: the entries under d that are not hidden, each followed by
\* what lies under it
rlistdir(t, d) == rlistdirEach(t, glob1(t, d))
rlistdirEach(t, ps) ==
    IF ps = <<>> THEN <<>>
    ELSE <<Head(ps)>> \o rlistdir(t, Head(ps)) \o rlistdirEach(t, Tail(ps))

RECURSIVE Flatten(_)
Flatten(ss) == IF ss = <<>> THEN <<>> ELSE Head(ss) \o Flatten(Tail(ss))

\* line 23: glob.glob(input_dir + "/**/*", recursive=True): "**" gives
\* input_dir and everything rlistdir finds, "*" the entries of each
glob(t) ==
    LET places == << <<>> >> \o rlistdir(t, <<>>)
    IN  Flatten([i \in 1..Len(places) |-> glob1(t, places[i])])

\* the text of a file and its size in bytes: a CP949 character takes two
Content(kind) == IF kind = "cp949" THEN <<"K">> ELSE <<"a", "b">>
getsize(kind) == 2

\* tokenizer.encode, the external tokenizer: here one token per character
encode(code) == code

\* os.path.relpath(code_path, input_dir)
relpath(p) == Join([i \in 1..Len(p) |-> <<p[i]>>], "/")

\* lines 46-52
data_entry(t, p) ==
    [repo_id |-> "repo", file_path |-> relpath(p), content |-> Content(t[p]),
     size |-> getsize(t[p]), token_size |-> Len(encode(Content(t[p])))]

\* line 23
GlobInput ==
    /\ harvest_pc = "glob"
    /\ total_code_path_lst' = glob(input_tree)
    /\ path_index' = 1
    /\ harvest_pc' = "loop"
    /\ UNCHANGED <<input_tree, harvest_dataset, check_token_size_list, harvest_file>>
    /\ UNCHANGED <<clsVars, colVars, genVars, trnVars>>

CurrentPath == total_code_path_lst[path_index]

\* lines 30-31: a directory is passed over
SkipDirectory ==
    /\ harvest_pc = "loop"
    /\ path_index <= Len(total_code_path_lst)
    /\ input_tree[CurrentPath] = "dir"
    /\ path_index' = path_index + 1
    /\ UNCHANGED <<input_tree, total_code_path_lst, harvest_dataset,
                   check_token_size_list, harvest_file, harvest_pc>>
    /\ UNCHANGED <<clsVars, colVars, genVars, trnVars>>

\* lines 33-55: the file is read, at once or with cp949 after the first
\* read raised, and its record is appended
HarvestFile ==
    /\ harvest_pc = "loop"
    /\ path_index <= Len(total_code_path_lst)
    /\ input_tree[CurrentPath] \in {"utf8", "cp949"}
    /\ harvest_dataset' = Append(harvest_dataset, data_entry(input_tree, CurrentPath))
    /\ check_token_size_list' =
          Append(check_token_size_list,
                 <<Len(encode(Content(input_tree[CurrentPath]))), relpath(CurrentPath)>>)
    /\ path_index' = path_index + 1
    /\ UNCHANGED <<input_tree, total_code_path_lst, harvest_file, harvest_pc>>
    /\ UNCHANGED <<clsVars, colVars, genVars, trnVars>>

\* lines 33-38: the second read raises too and the error leaves main
ReadFails ==
    /\ harvest_pc = "loop"
    /\ path_index <= Len(total_code_path_lst)
    /\ input_tree[CurrentPath] = "binary"
    /\ harvest_pc' = "failed"
    /\ UNCHANGED <<input_tree, total_code_path_lst, path_index, harvest_dataset,
                   check_token_size_list, harvest_file>>
    /\ UNCHANGED <<clsVars, colVars, genVars, trnVars>>

\* lines 57-67: the records are written, then the token statistics are
\* printed; max() of an empty list raises after the file is written
SaveAndReport ==
    /\ harvest_pc = "loop"
    /\ path_index > Len(total_code_path_lst)
    /\ harvest_file' = [exists |-> TRUE, data |-> harvest_dataset]
    /\ harvest_pc' = IF check_token_size_list = <<>> THEN "failed" ELSE "done"
    /\ UNCHANGED <<input_tree, total_code_path_lst, path_index, harvest_dataset,
                   check_token_size_list>>
    /\ UNCHANGED <<clsVars, colVars, genVars, trnVars>>

NextHarvester ==
    \/ GlobInput
    \/ SkipDirectory
    \/ HarvestFile
    \/ ReadFails
    \/ SaveAndReport

SpecHarvester == InitHarvester /\ [][NextHarvester]_vars

\* =========================================================================
\* Claims about the harvester
\* =========================================================================
FilesUnder(t) == {p \in TreePaths : t[p] \in FileKinds}

\* C8: when every file under input_dir is readable, the number of records
\* written equals the number of non-directory files anywhere under it,
\* dot-prefixed files and files in dot-prefixed directories included.
C8_OneRecordPerFile ==
    (/\ harvest_file.exists
     /\ \A p \in FilesUnder(input_tree) : input_tree[p] # "binary")
        => Len(harvest_file.data) = Cardinality(FilesUnder(input_tree))

\* =========================================================================
\* The training driver: cpt_train.main
\* =========================================================================
MaxSources == 2   \* entries of cfg.data.train_path
MaxRows == 2      \* records in one data source

\* A replacement field {name} or a stretch of literal text
Field(name) == [field |-> name, text |-> <<>>]
Literal(text) == [field |-> "", text |-> text]

\* lines 9-14
CPT_CODE_PROMPT ==
    << Literal(<<"\n# File: ">>), Field("file_path"),
       Literal(<<"\n\n# Code Content:\n">>), Field("content"),
       Literal(<<"\n">>) >>

RECURSIVE Substitute(_, _)
Substitute(template, kwargs) ==
    IF template = <<>> THEN <<>>
    ELSE (IF Head(template).field = "" THEN Head(template).text
          ELSE kwargs[Head(template).field])
         \o Substitute(Tail(template), kwargs)

\* str.format(*args, **kwargs) on a template whose fields are all named: a
\* named field is looked up among the keyword arguments only, and a name
\* that is not among them raises KeyError; positional arguments that no
\* field uses are ignored.
format(template, args, kwargs) ==
    IF \E i \in 1..Len(template) :
           template[i].field # "" /\ template[i].field \notin DOMAIN kwargs
    THEN [error |-> "KeyError", text |-> <<>>]
    ELSE [error |-> "none", text |-> Substitute(template, kwargs)]

\* tokenizer.eos_token
EOS_TOKEN == <<"</s>">>

NoKeywords == [x \in {} |-> <<>>]

\* line 50
prompt_text(file_path, content) ==
    LET r == format(CPT_CODE_PROMPT, <<file_path, content>>, NoKeywords)
    IN  IF r.error = "none" THEN [error |-> "none", text |-> r.text \o EOS_TOKEN]
        ELSE r

\* Python values held by dataset and combined_dataset: a Dataset, a
\* DatasetDict with its one split "train", or no value yet
Dataset(columns, rows) == [type |-> "Dataset", columns |-> columns, rows |-> rows]
DatasetDict(train) == [type |-> "DatasetDict", columns |-> train.columns, rows |-> train.rows]
Unbound == [type |-> "unbound", columns |-> {}, rows |-> <<>>]

Row(file_path, content) == [file_path |-> file_path, content |-> content, text |-> <<>>]

RowPool == { Row(<<"a",".","c">>, <<"x">>), Row(<<"b",".","h">>, <<"y">>) }

\* cfg.data.train_path entries: a local JSON file or a hub identifier, with
\* the records load_dataset finds there
SourceNames == { <<"d",".","j","s","o","n">>, <<"h","u","b">> }

DataSource(name, rows) == [name |-> name, rows |-> rows]

SourcePool == {DataSource(n, rows) : n \in SourceNames, rows \in SeqsUpTo(RowPool, MaxRows)}

NoTrainer == [built |-> FALSE, train_dataset |-> Unbound, trained |-> FALSE]

InitTrainer ==
    /\ data_sources \in SeqsUpTo(SourcePool, MaxSources)
    /\ source_index = 1
    /\ datasets_to_combine = <<>>
    /\ dataset = Unbound
    /\ combined_dataset = Unbound
    /\ trainer = NoTrainer
    /\ saved_model = FALSE
    /\ train_error = "none"
    /\ train_pc = "load_model"
    /\ ClsIdle /\ ColIdle /\ GenIdle /\ HarIdle

\* load_dataset('json', data_files=source) and load_dataset(source) both
\* give a DatasetDict with the split "train"
load_dataset(src) == DatasetDict(Dataset({"file_path", "content"}, src.rows))

\* dataset['train']
TrainSplit(d) == Dataset(d.columns, d.rows)

\* datasets.concatenate_datasets: an empty list raises ValueError
concatenate_datasets(dsets) ==
    IF dsets = <<>> THEN [error |-> "ValueError", value |-> Unbound]
    ELSE [error |-> "none",
          value |-> Dataset(dsets[1].columns,
                            Flatten([i \in 1..Len(dsets) |-> dsets[i].rows]))]

\* lines 44-52 on one batch: the first record whose text cannot be built
\* raises; otherwise the texts, in the configured text column
formatting_prompts_func(rows) ==
    IF \E i \in 1..Len(rows) :
           prompt_text(rows[i].file_path, rows[i].content).error # "none"
    THEN [error |-> "KeyError", outputs |-> <<>>]
    ELSE [error |-> "none",
          outputs |-> [i \in 1..Len(rows) |->
                          prompt_text(rows[i].file_path, rows[i].content).text]]

\* Dataset.map(function, batched=True): an empty dataset is returned as it
\* is and the function is not called
map(d) ==
    IF d.rows = <<>> THEN [error |-> "none", value |-> d]
    ELSE LET r == formatting_prompts_func(d.rows)
         IN  IF r.error # "none" THEN [error |-> r.error, value |-> d]
             ELSE [error |-> "none",
                   value |-> Dataset(d.columns \cup {"text"},
                                 [i \in 1..Len(d.rows) |->
                                     [d.rows[i] EXCEPT !.text = r.outputs[i]]])]

\* line 80: what is passed as train_dataset
train_dataset == dataset

\* lines 21-43, 56-57: the base model, the adapter and the tokenizer are
\* loaded by the framework
LoadModel ==
    /\ train_pc = "load_model"
    /\ train_pc' = "sources"
    /\ UNCHANGED <<data_sources, source_index, datasets_to_combine, dataset,
                   combined_dataset, trainer, saved_model, train_error>>
    /\ UNCHANGED <<clsVars, colVars, genVars, harVars>>

\* lines 58-66: one source is loaded; both branches assign dataset and
\* append its train split
LoadSource ==
    /\ train_pc = "sources"
    /\ source_index <= Len(data_sources)
    /\ LET src == data_sources[source_index]
           loaded == IF EndsWith(src.name, <<".","j","s","o","n">>)
                     THEN load_dataset(src)     \* 'json', data_files=source
                     ELSE load_dataset(src)     \* a hub identifier
       IN  /\ dataset' = loaded
           /\ datasets_to_combine' = Append(datasets_to_combine, TrainSplit(loaded))
    /\ source_index' = source_index + 1
    /\ UNCHANGED <<data_sources, combined_dataset, trainer, saved_model,
                   train_error, train_pc>>
    /\ UNCHANGED <<clsVars, colVars, genVars, harVars>>

\* line 68
Concatenate ==
    /\ train_pc = "sources"
    /\ source_index > Len(data_sources)
    /\ LET r == concatenate_datasets(datasets_to_combine)
       IN  /\ combined_dataset' = r.value
           /\ train_error' = r.error
           /\ train_pc' = IF r.error = "none" THEN "map" ELSE "failed"
    /\ UNCHANGED <<data_sources, source_index, datasets_to_combine, dataset,
                   trainer, saved_model>>
    /\ UNCHANGED <<clsVars, colVars, genVars, harVars>>

\* line 69
MapPrompts ==
    /\ train_pc = "map"
    /\ LET r == map(combined_dataset)
       IN  /\ combined_dataset' = r.value
           /\ train_error' = r.error
           /\ train_pc' = IF r.error = "none" THEN "mapped" ELSE "failed"
    /\ UNCHANGED <<data_sources, source_index, datasets_to_combine, dataset,
                   trainer, saved_model>>
    /\ UNCHANGED <<clsVars, colVars, genVars, harVars>>

\* lines 72-122: the first sample is printed (IndexError on an empty
\* dataset), the trainer is built, trains and saves the model
TrainAndSave ==
    /\ train_pc = "mapped"
    /\ IF combined_dataset.rows = <<>>
       THEN /\ train_error' = "IndexError"
            /\ train_pc' = "failed"
            /\ UNCHANGED <<trainer, saved_model>>
       ELSE /\ trainer' = [built |-> TRUE, train_dataset |-> train_dataset,
                           trained |-> TRUE]
            /\ saved_model' = TRUE
            /\ train_pc' = "done"
            /\ UNCHANGED train_error
    /\ UNCHANGED <<data_sources, source_index, datasets_to_combine, dataset,
                   combined_dataset>>
    /\ UNCHANGED <<clsVars, colVars, genVars, harVars>>

NextTrainer ==
    \/ LoadModel
    \/ LoadSource
    \/ Concatenate
    \/ MapPrompts
    \/ TrainAndSave

SpecTrainer == InitTrainer /\ [][NextTrainer]_vars

\* =========================================================================
\* Claims about the training driver
\* =========================================================================
\* the records of all configured sources, in configuration order
AllSourceRows == Flatten([i \in 1..Len(data_sources) |-> data_sources[i].rows])

\* the template with a record's file_path and content put in, then the
\* end-of-sequence marker
ExpectedText(row) ==
    Substitute(CPT_CODE_PROMPT,
               [file_path |-> row.file_path, content |-> row.content])
        \o EOS_TOKEN

TrainEnded == train_pc \in {"done", "failed"}

\* C9: once all sources are loaded and concatenated, what line 80 hands to
\* the trainer as train_dataset holds the records of ALL configured sources
\* (the records of combined_dataset), whatever the number of sources.
C9_TrainerGetsCombined ==
    train_pc \in {"map", "mapped", "done"} =>
        /\ Len(train_dataset.rows) = Len(combined_dataset.rows)
        /\ [i \in 1..Len(train_dataset.rows) |->
               <<train_dataset.rows[i].file_path, train_dataset.rows[i].content>>]
           = [i \in 1..Len(AllSourceRows) |->
               <<AllSourceRows[i].file_path, AllSourceRows[i].content>>]

\* C10: a run over a non-empty combined dataset maps every record without
\* error to the template text followed by the end-of-sequence marker and
\* goes on to build the trainer, train and save the model.
C10_FormatsAndTrains ==
    (TrainEnded /\ AllSourceRows # <<>>) =>
        /\ train_error = "none"
        /\ \A i \in 1..Len(combined_dataset.rows) :
              combined_dataset.rows[i].text = ExpectedText(combined_dataset.rows[i])
        /\ trainer.built /\ trainer.trained /\ saved_model
====
